---- MODULE Spec2Model ----
(***************************************************************************)
(* A model of the render layer of mrml-core: the render context (Header),  *)
(* the attribute resolution cascade of the Render trait and the renderer   *)
(* of the mj-divider component.                                            *)
(*                                                                         *)
(* Strings that the code splits, trims, parses or formats are sequences of *)
(* one-character strings.  Map keys the code only compares for equality    *)
(* (attribute keys, tag names) are TLA+ strings.  Option<T> is a set with  *)
(* at most one element.  A Pixel is a count of hundredths of a pixel, so   *)
(* that a percentage of a whole number of pixels is exact.                 *)
(***************************************************************************)
EXTENDS Integers, Sequences, FiniteSets, TLC

VARIABLES
    header,   \* the Header: cascade tables, accumulators, id generator
    node,     \* the renderer of one node: kind, attributes, container width
    cursor,   \* the output buffer and the outcome of the last render
    call,     \* the last operation and what it returned
    threads,  \* execution contexts that invoke next_id on the shared Header
    hist      \* what has been passed in and handed out so far

vars == <<header, node, cursor, call, threads, hist>>

(***************************************************************************)
(* Option                                                                  *)
(***************************************************************************)
None == {}

Some(v) == {v}

IsSome(o) == o # {}

Unwrap(o) == CHOOSE v \in o : TRUE

\* Option::or_else
OrElse(o, p) == IF IsSome(o) THEN o ELSE p

\* Map::get
Get(m, k) == IF k \in DOMAIN m THEN Some(m[k]) ELSE None

\* Map::new
EmptyMap == <<>>

\* Map::insert
Insert(m, k, v) == [x \in DOMAIN m \cup {k} |-> IF x = k THEN v ELSE m[x]]

(***************************************************************************)
(* str                                                                     *)
(***************************************************************************)
\* char::is_whitespace, on the characters of the model
IsWhitespace(c) == c \in {" ", "\t"}

RECURSIVE TrimStart(_)
TrimStart(s) ==
    IF s # <<>> /\ IsWhitespace(Head(s)) THEN TrimStart(Tail(s)) ELSE s

RECURSIVE TrimEnd(_)
TrimEnd(s) ==
    IF s # <<>> /\ IsWhitespace(s[Len(s)])
    THEN TrimEnd(SubSeq(s, 1, Len(s) - 1))
    ELSE s

\* str::trim
Trim(s) == TrimEnd(TrimStart(s))

\* str::split(char): the pieces between the separators, empty ones included
RECURSIVE SplitFrom(_, _, _)
SplitFrom(s, sep, piece) ==
    IF s = <<>> THEN <<piece>>
    ELSE IF Head(s) = sep THEN <<piece>> \o SplitFrom(Tail(s), sep, <<>>)
    ELSE SplitFrom(Tail(s), sep, Append(piece, Head(s)))

Split(s, sep) == SplitFrom(s, sep, <<>>)

\* str::ends_with
EndsWith(s, suffix) ==
    /\ Len(s) >= Len(suffix)
    /\ SubSeq(s, Len(s) - Len(suffix) + 1, Len(s)) = suffix

DigitChars == <<"0", "1", "2", "3", "4", "5", "6", "7", "8", "9">>

IsDigit(c) == \E i \in 1..10 : DigitChars[i] = c

DigitValue(c) == (CHOOSE i \in 1..10 : DigitChars[i] = c) - 1

\* Display for an unsigned integer: its decimal digits
RECURSIVE ToDecimal(_)
ToDecimal(n) ==
    IF n < 10 THEN <<DigitChars[n + 1]>>
    ELSE Append(ToDecimal(n \div 10), DigitChars[(n % 10) + 1])

\* format!("{:c>width}"): fill on the left up to width, never truncate
RECURSIVE PadLeft(_, _, _)
PadLeft(s, c, width) ==
    IF Len(s) >= width THEN s ELSE PadLeft(<<c>> \o s, c, width)

(***************************************************************************)
(* Header                                                                  *)
(***************************************************************************)
\* AtomicU16
GeneratorBits == 16

GeneratorModulus == 2 ^ GeneratorBits

\* a Pixel holds hundredths of a pixel
PixelScale == 100

\* Pixel::new(480.0)
DefaultBreakpoint == 480 * PixelScale

\* a Header::new that starts the generator at 1
HeaderNewFromOne(head) ==
    [attributes_all |-> head.attributes_all,
     attributes_class |-> head.attributes_class,
     attributes_element |-> head.attributes_element,
     breakpoint |-> IF IsSome(head.breakpoint) THEN Unwrap(head.breakpoint)
                    ELSE DefaultBreakpoint,
     font_families |-> head.font_families,
     used_font_families |-> {},
     media_queries |-> EmptyMap,
     styles |-> {},
     lang |-> None,
     generator |-> 1]

\* Header::new: the tables come from the head, the accumulators start empty
HeaderNew(head) ==
    [attributes_all |-> head.attributes_all,
     attributes_class |-> head.attributes_class,
     attributes_element |-> head.attributes_element,
     breakpoint |-> IF IsSome(head.breakpoint) THEN Unwrap(head.breakpoint)
                    ELSE DefaultBreakpoint,
     font_families |-> head.font_families,
     used_font_families |-> {},
     media_queries |-> EmptyMap,
     styles |-> {},
     lang |-> None,
     generator |-> 0]

\* head = None: every table is Default::default()
NoHead ==
    [attributes_all |-> EmptyMap,
     attributes_class |-> EmptyMap,
     attributes_element |-> EmptyMap,
     breakpoint |-> None,
     font_families |-> EmptyMap]

attribute_all(h, key) == Get(h.attributes_all, key)

attribute_class(h, name, key) ==
    IF name \in DOMAIN h.attributes_class
    THEN Get(h.attributes_class[name], key)
    ELSE None

attribute_element(h, name, key) ==
    IF name \in DOMAIN h.attributes_element
    THEN Get(h.attributes_element[name], key)
    ELSE None

add_used_font_family(h, value) ==
    [h EXCEPT !.used_font_families = @ \cup {value}]

FontNamesUntrimmed(value) ==
    LET pieces == Split(value, ",")
    IN  {pieces[i] : i \in {j \in 1..Len(pieces) : pieces[j] # <<>>}}

\* the names add_font_families iterates over: split(','), trim, filter non-empty
FontNames(value) ==
    LET pieces == Split(value, ",")
    IN  {Trim(pieces[i]) : i \in {j \in 1..Len(pieces) : Trim(pieces[j]) # <<>>}}

add_font_families(h, value) ==
    [h EXCEPT !.used_font_families = @ \cup FontNames(value)]

maybe_add_font_families(h, value) ==
    IF IsSome(value) THEN add_font_families(h, Unwrap(value)) ELSE h

add_media_query(h, classname, size) ==
    [h EXCEPT !.media_queries = Insert(@, classname, size)]

add_style_into_head(h, value) ==
    [h EXCEPT !.styles = @ \cup {value},
              !.attributes_all = Insert(@, "style", <<"s">>)]

add_style(h, value) == [h EXCEPT !.styles = @ \cup {value}]

maybe_add_style(h, value) ==
    IF IsSome(value) THEN add_style(h, Unwrap(value)) ELSE h

maybe_set_lang_if_some(h, value) ==
    IF IsSome(value) THEN [h EXCEPT !.lang = value] ELSE h

maybe_set_lang(h, value) == [h EXCEPT !.lang = value]

\* AtomicU16::fetch_add(1): the value before, and the wrapped increment
FetchAdd(h) == [h EXCEPT !.generator = (@ + 1) % GeneratorModulus]

\* format!("{id:0>8}")
FormatId(id) == PadLeft(ToDecimal(id), "0", 8)

(***************************************************************************)
(* Value types: Pixel, Size, Spacing                                       *)
(***************************************************************************)
\* Size, a tagged value: Size::Pixel, Size::Percent, Size::Raw
SizePixel(v) == [unit |-> "px", value |-> v]

SizePercent(v) == [unit |-> "%", value |-> v]

SizeRaw(v) == [unit |-> "raw", value |-> v]

\* str::parse of an unsigned whole number: absent unless s is all digits
RECURSIVE DigitsValue(_)
DigitsValue(s) ==
    IF s = <<>> THEN 0
    ELSE 10 * DigitsValue(SubSeq(s, 1, Len(s) - 1)) + DigitValue(s[Len(s)])

ParseNumber(s) ==
    IF s # <<>> /\ \A i \in 1..Len(s) : IsDigit(s[i])
    THEN Some(DigitsValue(s))
    ELSE None

StripSuffix(s, suffix) == SubSeq(s, 1, Len(s) - Len(suffix))

\* Pixel::try_from(&str): a trimmed literal with the suffix px
PixelTryFrom(value) ==
    LET s == Trim(value)
    IN  IF EndsWith(s, <<"p", "x">>)
        THEN {PixelScale * n : n \in ParseNumber(StripSuffix(s, <<"p", "x">>))}
        ELSE None

\* Size::try_from(&str): px and % select the variant, anything else is raw
SizeTryFrom(value) ==
    LET s == Trim(value)
    IN  IF EndsWith(s, <<"p", "x">>)
        THEN {SizePixel(v) : v \in PixelTryFrom(s)}
        ELSE IF EndsWith(s, <<"%">>)
        THEN {SizePercent(n) : n \in ParseNumber(StripSuffix(s, <<"%">>))}
        ELSE Some(SizeRaw(s))

\* Size::as_pixel
AsPixel(size) == IF size.unit = "px" THEN Some(size.value) ELSE None

\* str::split_whitespace
SplitWhitespace(s) ==
    LET pieces == Split([i \in 1..Len(s) |-> IF IsWhitespace(s[i]) THEN " " ELSE s[i]],
                        " ")
    IN  SelectSeq(pieces, LAMBDA piece : piece # <<>>)

\* Spacing::try_from(&str): 1 to 4 sizes, as <<top, right, bottom, left>>
SpacingTryFrom(value) ==
    LET parts == SplitWhitespace(value)
        sizes == [i \in 1..Len(parts) |-> SizeTryFrom(parts[i])]
        at(i) == Unwrap(sizes[i])
    IN  IF Len(parts) \notin 1..4 \/ \E i \in 1..Len(parts) : sizes[i] = None
        THEN None
        ELSE IF Len(parts) = 1 THEN Some(<<at(1), at(1), at(1), at(1)>>)
        ELSE IF Len(parts) = 2 THEN Some(<<at(1), at(2), at(1), at(2)>>)
        ELSE IF Len(parts) = 3 THEN Some(<<at(1), at(2), at(3), at(2)>>)
        ELSE Some(<<at(1), at(2), at(3), at(4)>>)

SpacingRight(spacing) == spacing[2]

SpacingLeft(spacing) == spacing[4]

\* Display for Pixel: the number, then px
PixelToString(v) ==
    LET a == IF v < 0 THEN -v ELSE v
        whole == ToDecimal(a \div PixelScale)
        frac == a % PixelScale
        fraction == IF frac = 0 THEN <<>>
                    ELSE IF frac % 10 = 0 THEN <<".">> \o ToDecimal(frac \div 10)
                    ELSE <<".">> \o PadLeft(ToDecimal(frac), "0", 2)
    IN  (IF v < 0 THEN <<"-">> ELSE <<>>) \o whole \o fraction \o <<"p", "x">>

(***************************************************************************)
(* Render: the attribute cascade and the accessors built on it             *)
(***************************************************************************)
TagDivider == "mj-divider"

\* Render::tag: the default is None, the divider's is its NAME
tag(n) == IF n.kind = "mj-divider" THEN Some(TagDivider) ELSE None

attributes(n) == n.attributes

extra_attributes(n) == n.extra_attributes

\* the divider's table of defaults
DividerDefaults ==
    ("align" :> <<"c", "e", "n", "t", "e", "r">>)
    @@ ("border-color" :> <<"#", "0", "0", "0", "0", "0", "0">>)
    @@ ("border-style" :> <<"s", "o", "l", "i", "d">>)
    @@ ("border-width" :> <<"4", "p", "x">>)
    @@ ("padding" :> <<"1", "0", "p", "x", " ", "2", "5", "p", "x">>)
    @@ ("width" :> <<"1", "0", "0", "%">>)

\* Render::default_attribute: the default is None for every key
default_attribute(n, key) ==
    IF n.kind = "mj-divider" THEN Get(DividerDefaults, key) ELSE None

\* attrs.and_then(|attrs| attrs.get(key))
AndThenGet(attrs, key) == IF IsSome(attrs) THEN Get(Unwrap(attrs), key) ELSE None

\* split(' ').map(trim).filter_map(|c| header.attribute_class(c, key)).next()
FirstClassValue(h, mj_classes, key) ==
    LET names == Split(mj_classes, " ")
        found == {i \in 1..Len(names) :
                     IsSome(attribute_class(h, Trim(names[i]), key))}
    IN  IF found = {} THEN None
        ELSE attribute_class(h, Trim(names[CHOOSE i \in found : \A j \in found : i <= j]),
                             key)

\* a cascade that asks the global table before the element table
attribute_global_first(n, h, key) ==
    LET own == AndThenGet(attributes(n), key)
        extra == AndThenGet(extra_attributes(n), key)
        mj_class == AndThenGet(attributes(n), "mj-class")
        class == IF IsSome(mj_class) THEN FirstClassValue(h, Unwrap(mj_class), key)
                 ELSE None
        element == IF IsSome(tag(n)) THEN attribute_element(h, Unwrap(tag(n)), key)
                   ELSE None
    IN  IF IsSome(own) THEN own
        ELSE IF IsSome(extra) THEN extra
        ELSE IF IsSome(class) THEN class
        ELSE IF IsSome(attribute_all(h, key)) THEN attribute_all(h, key)
        ELSE IF IsSome(element) THEN element
        ELSE default_attribute(n, key)

\* Render::attribute
attribute(n, h, key) ==
    LET own == AndThenGet(attributes(n), key)
        extra == AndThenGet(extra_attributes(n), key)
        mj_class == AndThenGet(attributes(n), "mj-class")
        class == IF IsSome(mj_class) THEN FirstClassValue(h, Unwrap(mj_class), key)
                 ELSE None
        element == IF IsSome(tag(n)) THEN attribute_element(h, Unwrap(tag(n)), key)
                   ELSE None
    IN  IF IsSome(own) THEN own
        ELSE IF IsSome(extra) THEN extra
        ELSE IF IsSome(class) THEN class
        ELSE IF IsSome(element) THEN element
        ELSE IF IsSome(attribute_all(h, key)) THEN attribute_all(h, key)
        ELSE default_attribute(n, key)

attribute_as_pixel(n, h, name) ==
    UNION {PixelTryFrom(value) : value \in attribute(n, h, name)}

attribute_as_size(n, h, name) ==
    UNION {SizeTryFrom(value) : value \in attribute(n, h, name)}

attribute_as_spacing(n, h, name) ==
    UNION {SpacingTryFrom(value) : value \in attribute(n, h, name)}

get_padding_left(n, h) ==
    OrElse(attribute_as_pixel(n, h, "padding-left"),
           UNION {AsPixel(SpacingLeft(sp)) : sp \in attribute_as_spacing(n, h, "padding")})

get_padding_right(n, h) ==
    OrElse(attribute_as_pixel(n, h, "padding-right"),
           UNION {AsPixel(SpacingRight(sp)) : sp \in attribute_as_spacing(n, h, "padding")})

\* unwrap_or(0.0)
UnwrapOrZero(o) == IF IsSome(o) THEN Unwrap(o) ELSE 0

get_padding_horizontal(n, h) ==
    UnwrapOrZero(get_padding_left(n, h)) + UnwrapOrZero(get_padding_right(n, h))

set_container_width(n, width) == [n EXCEPT !.container_width = width]

(***************************************************************************)
(* Tag and RenderBuffer: what is appended to the output buffer             *)
(***************************************************************************)
Str_px1 == <<"1", "p", "x">>

Str_0px_auto == <<"0", "p", "x", " ", "a", "u", "t", "o">>

Str_0 == <<"0">>

Str_center == <<"c", "e", "n", "t", "e", "r">>

Str_presentation == <<"p", "r", "e", "s", "e", "n", "t", "a", "t", "i", "o", "n">>

Str_nbsp == <<"&", "n", "b", "s", "p", ";">>

\* Tag::new
TagNew(name) == [name |-> name, attributes |-> <<>>, styles |-> <<>>]

\* Tag::add_attribute: appended in call order
TagAddAttribute(t, key, value) == [t EXCEPT !.attributes = Append(@, <<key, value>>)]

\* Tag::add_style: appended in call order
TagAddStyle(t, key, value) == [t EXCEPT !.styles = Append(@, <<key, value>>)]

\* Tag::maybe_add_style: nothing for an absent value
TagMaybeAddStyle(t, key, value) ==
    IF IsSome(value) THEN TagAddStyle(t, key, Unwrap(value)) ELSE t

\* Tag::table_presentation
TagTablePresentation == TagAddAttribute(TagNew("table"), "role", Str_presentation)

\* what the buffer holds: start tags, end tags, text, conditional markers
Piece(kind, t, text) == [kind |-> kind, tag |-> t, text |-> text]

NoTag == TagNew("")

RenderOpen(buf, t) == Append(buf, Piece("open", t, <<>>))

RenderClose(buf, t) == Append(buf, Piece("close", TagNew(t.name), <<>>))

\* Tag::render_text: start tag, text, end tag
RenderText(buf, t, text) ==
    RenderClose(Append(RenderOpen(buf, t), Piece("text", NoTag, text)), t)

\* RenderBuffer::start_conditional_tag
StartConditionalTag(buf) == Append(buf, Piece("conditional-start", NoTag, <<>>))

\* RenderBuffer::end_conditional_tag
EndConditionalTag(buf) == Append(buf, Piece("conditional-end", NoTag, <<>>))

(***************************************************************************)
(* Renderer<MjDivider>.  An operator that can panic yields an Option:      *)
(* absent where the code panics.                                           *)
(***************************************************************************)
\* the three unwraps of set_style_p_without_width panic on an absent value
set_style_p_without_width(n, h, t) ==
    LET style == attribute(n, h, "border-style")
        width == attribute(n, h, "border-width")
        color == attribute(n, h, "border-color")
    IN  IF style = None \/ width = None \/ color = None THEN None
        ELSE Some(TagAddStyle(
                      TagAddStyle(
                          TagAddStyle(t, "border-top",
                                      Unwrap(style) \o <<" ">> \o Unwrap(width)
                                          \o <<" ">> \o Unwrap(color)),
                          "font-size", Str_px1),
                      "margin", Str_0px_auto))

set_style_p(n, h, t) ==
    {TagMaybeAddStyle(u, "width", attribute(n, h, "width")) :
        u \in set_style_p_without_width(n, h, t)}

\* an outlook width that takes an absent container width for 0
get_outlook_width_or_zero(n, h) ==
    LET container_width == UnwrapOrZero(n.container_width)
        padding_horizontal == get_padding_horizontal(n, h)
        width == OrElse(attribute_as_size(n, h, "width"), Some(SizePercent(100)))
        size == Unwrap(width)
    IN  IF size.unit = "%"
        THEN Some(((container_width - padding_horizontal) * size.value) \div 100)
        ELSE IF size.unit = "px" THEN Some(size.value)
        ELSE Some(container_width - padding_horizontal)

\* an outlook width that takes the percentage of the whole container width
get_outlook_width_of_container(n, h) ==
    IF n.container_width = None THEN None
    ELSE
    LET container_width == Unwrap(n.container_width)
        padding_horizontal == get_padding_horizontal(n, h)
        width == OrElse(attribute_as_size(n, h, "width"), Some(SizePercent(100)))
        size == Unwrap(width)
    IN  IF size.unit = "%"
        THEN Some((container_width * size.value) \div 100 - padding_horizontal)
        ELSE IF size.unit = "px" THEN Some(size.value)
        ELSE Some(container_width - padding_horizontal)

\* get_outlook_width: container_width.as_ref().unwrap() panics when absent
get_outlook_width(n, h) ==
    IF n.container_width = None THEN None
    ELSE
    LET container_width == Unwrap(n.container_width)
        padding_horizontal == get_padding_horizontal(n, h)
        width == OrElse(attribute_as_size(n, h, "width"), Some(SizePercent(100)))
        size == Unwrap(width)
    IN  IF size.unit = "%"
        THEN Some(((container_width - padding_horizontal) * size.value) \div 100)
        ELSE IF size.unit = "px" THEN Some(size.value)
        ELSE Some(container_width - padding_horizontal)

set_style_outlook(n, h, t) ==
    IF get_outlook_width(n, h) = None THEN None
    ELSE {TagAddStyle(u, "width", PixelToString(Unwrap(get_outlook_width(n, h)))) :
             u \in set_style_p_without_width(n, h, t)}

\* the table of render_after: absent where building it panics
OutlookTable(n, h) ==
    {TagAddAttribute(TagAddAttribute(u, "align", Str_center),
                     "width", PixelToString(Unwrap(get_outlook_width(n, h)))) :
        u \in set_style_outlook(n, h, TagTablePresentation)}

OutlookTd ==
    TagAddStyle(TagAddStyle(TagNew("td"), "height", Str_0), "line-height", Str_0)

\* a render_after that closes the table before the row
render_after_misnested(n, h, buf) ==
    {EndConditionalTag(
         RenderClose(
             RenderClose(
                 RenderText(
                     RenderOpen(RenderOpen(StartConditionalTag(buf), table), TagNew("tr")),
                     OutlookTd, Str_nbsp),
                 table),
             TagNew("tr"))) : table \in OutlookTable(n, h)}

\* render_after: the buffer afterwards, absent where it panics
render_after(n, h, buf) ==
    {EndConditionalTag(
         RenderClose(
             RenderClose(
                 RenderText(
                     RenderOpen(RenderOpen(StartConditionalTag(buf), table), TagNew("tr")),
                     OutlookTd, Str_nbsp),
                 TagNew("tr")),
             table)) : table \in OutlookTable(n, h)}

\* the buffer after the <p> of render, absent where set_style_p panics
RenderP(n, h, buf) ==
    {RenderText(buf, p, <<>>) : p \in set_style_p(n, h, TagNew("p"))}

(***************************************************************************)
(* Inputs of the Header operations                                         *)
(***************************************************************************)
FontLato == <<"L", "a", "t", "o">>

FontArial == <<"A", "r", "i", "a", "l">>

FontUbuntu == <<"U", "b", "u", "n", "t", "u">>

\* "Lato, Arial"
FontListA == FontLato \o <<",", " ">> \o FontArial

\* " Arial ,,Ubuntu\t"
FontListB == <<" ">> \o FontArial \o <<" ", ",", ",">> \o FontUbuntu \o <<"\t">>

\* ""
FontListEmpty == <<>>

\* values of font-family attributes, given to add_font_families
FontValues == {FontListA, FontListB}

\* values given to add_used_font_family directly
RawFontValues == {FontListA, FontListEmpty}

StyleValues == {".a{}", ".b{}"}

LangValues == {"en", "fr"}

MediaClasses == {"mj-column-per-100"}

MediaSizes == {SizePercent(100), SizePixel(30000)}

ClassA == <<"a">>

ClassB == <<"b">>

W20pc == <<"2", "0", "%">>

W50pc == <<"5", "0", "%">>

W100px == <<"1", "0", "0", "p", "x">>

WAuto == <<"a", "u", "t", "o">>

WBadPx == <<"x", "p", "x">>

P5 == <<"5", "p", "x">>

P10x25 == <<"1", "0", "p", "x", " ", "2", "5", "p", "x">>

P1234 == <<"1", "p", "x", " ", "2", "p", "x", " ", "3", "p", "x", " ", "4", "p", "x">>

\* a head section with declarations in mj-attributes, and a breakpoint
HeadA ==
    [attributes_all |-> ("width" :> W20pc) @@ ("color" :> <<"r">>),
     attributes_class |-> (ClassA :> ("padding" :> P5))
                          @@ (ClassB :> (("width" :> W100px) @@ ("padding" :> P1234))),
     attributes_element |-> (TagDivider :> ("width" :> W50pc)),
     breakpoint |-> Some(32000),
     font_families |-> ("lato" :> FontLato)]

Heads == {NoHead, HeadA}

(***************************************************************************)
(* Bounds                                                                  *)
(***************************************************************************)
\* next_id calls in the specifications that also run the other operations
MaxIds == 2

\* next_id calls in a row on one Header: past the range of the generator
MaxCallsInARow == 65540

\* next_id calls from all execution contexts together, from the moment the
\* Header is shared
MaxSharedCalls == 4

\* the completed invocations whose result the history keeps
MaxLogged == 2

\* renders of the node into one cursor
MaxRenders == 1

\* elements in the body of a document
MaxDocOps == 2

\* renders of one document
MaxPasses == 2

(***************************************************************************)
(* The state outside the Header, where a specification leaves it alone     *)
(***************************************************************************)
\* a renderer that keeps the defaults of the Render trait
IdleNode ==
    [kind |-> "generic",
     attributes |-> None,
     extra_attributes |-> None,
     container_width |-> None]

\* the cursor before any render: buffer is what has been appended, output what
\* the caller of render has obtained, result how the last render ended
EmptyCursor ==
    [buffer |-> <<>>,
     result |-> "none",
     output |-> None,
     before |-> <<>>,
     container_width |-> None,
     disable_comments |-> FALSE,
     renders |-> 0]

NoCall == [op |-> "new", ret |-> None]

Threads == {1, 2}

IdleThreads == [t \in Threads |-> [pc |-> "idle", id |-> 0, n |-> 0, ret |-> None]]

NoHist ==
    [split_values |-> {},
     raw_values |-> {},
     lang_arg |-> None,
     lang_before |-> None,
     calls |-> 0,
     last_id |-> None,
     prev_id |-> None,
     log |-> {},
     doc |-> [head |-> NoHead, body |-> <<>>],
     pass |-> 0,
     ip |-> 0,
     outputs |-> <<>>]

(***************************************************************************)
(* Spec: any sequence of operations on one Header                          *)
(***************************************************************************)
Init ==
    /\ header = HeaderNew(HeadA)
    /\ node = IdleNode
    /\ cursor = EmptyCursor
    /\ call = NoCall
    /\ threads = IdleThreads
    /\ hist = NoHist

Rest == <<node, cursor, threads>>

AddUsedFontFamily ==
    \E value \in RawFontValues :
        /\ header' = add_used_font_family(header, value)
        /\ hist' = [hist EXCEPT !.raw_values = @ \cup {value}]
        /\ call' = [op |-> "add_used_font_family", ret |-> None]
        /\ UNCHANGED Rest

AddFontFamilies ==
    \E value \in FontValues :
        /\ header' = add_font_families(header, value)
        /\ hist' = [hist EXCEPT !.split_values = @ \cup {value}]
        /\ call' = [op |-> "add_font_families", ret |-> None]
        /\ UNCHANGED Rest

MaybeAddFontFamilies ==
    \E value \in {None} \cup {Some(v) : v \in FontValues} :
        /\ header' = maybe_add_font_families(header, value)
        /\ hist' = [hist EXCEPT !.split_values = @ \cup value]
        /\ call' = [op |-> "maybe_add_font_families", arg |-> value, ret |-> None]
        /\ UNCHANGED Rest

AddMediaQuery ==
    \E classname \in MediaClasses, size \in MediaSizes :
        /\ header' = add_media_query(header, classname, size)
        /\ call' = [op |-> "add_media_query", ret |-> None]
        /\ UNCHANGED <<hist, Rest>>

AddStyle ==
    \E value \in StyleValues :
        /\ header' = add_style(header, value)
        /\ call' = [op |-> "add_style", ret |-> None]
        /\ UNCHANGED <<hist, Rest>>

MaybeAddStyle ==
    \E value \in {None} \cup {Some(v) : v \in StyleValues} :
        /\ header' = maybe_add_style(header, value)
        /\ call' = [op |-> "maybe_add_style", arg |-> value, ret |-> None]
        /\ UNCHANGED <<hist, Rest>>

MaybeSetLang ==
    \E value \in {None} \cup {Some(v) : v \in LangValues} :
        /\ header' = maybe_set_lang(header, value)
        /\ hist' = [hist EXCEPT !.lang_arg = value, !.lang_before = header.lang]
        /\ call' = [op |-> "maybe_set_lang", ret |-> None]
        /\ UNCHANGED Rest

\* next_id: fetch_add, then format the value fetched
NextIdUpTo(bound) ==
    /\ hist.calls < bound
    /\ header' = FetchAdd(header)
    /\ call' = [op |-> "next_id", ret |-> Some(FormatId(header.generator))]
    /\ hist' = [hist EXCEPT !.calls = @ + 1,
                            !.last_id = Some(FormatId(header.generator)),
                            !.prev_id = hist.last_id]
    /\ UNCHANGED Rest

NextId == NextIdUpTo(MaxIds)

\* the read accessors: none of them assigns a field
ReadTable ==
    \E key \in {"width"}, name \in {ClassA, ClassB} :
        /\ call' \in {[op |-> "attribute_all", ret |-> attribute_all(header, key)],
                      [op |-> "attribute_class",
                       ret |-> attribute_class(header, name, key)],
                      [op |-> "attribute_element",
                       ret |-> attribute_element(header, TagDivider, key)]}
        /\ UNCHANGED <<header, hist, Rest>>

ReadField ==
    /\ call' \in {[op |-> "breakpoint", ret |-> Some(header.breakpoint)],
                  [op |-> "lang", ret |-> header.lang],
                  [op |-> "used_font_families", ret |-> header.used_font_families],
                  [op |-> "styles", ret |-> header.styles],
                  [op |-> "media_queries", ret |-> Some(header.media_queries)],
                  [op |-> "font_families", ret |-> Some(header.font_families)]}
    /\ UNCHANGED <<header, hist, Rest>>

Next ==
    \/ AddUsedFontFamily
    \/ AddFontFamilies
    \/ MaybeAddFontFamilies
    \/ AddMediaQuery
    \/ AddStyle
    \/ MaybeAddStyle
    \/ MaybeSetLang
    \/ NextId
    \/ ReadTable
    \/ ReadField

Spec == Init /\ [][Next]_vars

(***************************************************************************)
(* Properties of Spec                                                      *)
(***************************************************************************)
\* t is a name in the comma-separated list v: a stretch of v without a comma
\* that neither starts nor ends with whitespace, with only whitespace between
\* it and the commas (or the ends of v) around it
TokensOf(v) ==
    {SubSeq(v, i, j) : <<i, j>> \in
        {p \in (1..Len(v)) \X (1..Len(v)) :
            /\ p[1] <= p[2]
            /\ \A k \in p[1]..p[2] : v[k] # ","
            /\ ~IsWhitespace(v[p[1]])
            /\ ~IsWhitespace(v[p[2]])
            /\ \A k \in 1..(p[1] - 1) :
                   (\A m \in k..(p[1] - 1) : v[m] # ",") => IsWhitespace(v[k])
            /\ \A k \in (p[2] + 1)..Len(v) :
                   (\A m \in (p[2] + 1)..k : v[m] # ",") => IsWhitespace(v[k])}}

\* C6, as stated: used_font_families is exactly the set of the non-empty,
\* trimmed, comma-separated tokens of every value passed so far to
\* add_font_families, maybe_add_font_families or add_used_font_family.
C6_UsedFontsAreTokensOfAllValues ==
    header.used_font_families =
        UNION {TokensOf(v) : v \in hist.split_values \cup hist.raw_values}

\* C6, amended: used_font_families is exactly the tokens of the values passed
\* to add_font_families and maybe_add_font_families, together with the values
\* passed to add_used_font_family, each taken whole.
C6_UsedFontsAreTokensAndRawValues ==
    header.used_font_families =
        UNION {TokensOf(v) : v \in hist.split_values} \cup hist.raw_values

C6_Witness ==
    /\ call.op = "add_font_families"
    /\ hist.split_values = FontValues
    /\ hist.raw_values = RawFontValues
    /\ header.used_font_families =
           {FontLato, FontArial, FontUbuntu, FontListA, FontListEmpty}

IsFontOp(op) ==
    op \in {"add_used_font_family", "add_font_families", "maybe_add_font_families"}

IsReadOp(op) ==
    op \in {"attribute_all", "attribute_class", "attribute_element", "breakpoint",
            "lang", "used_font_families", "styles", "media_queries", "font_families"}

\* C9: no operation on a Header changes attributes_all, attributes_class,
\* attributes_element, font_families or breakpoint; a mutator changes no
\* accumulator but its own, and a read accessor changes nothing.
C9_TablesImmutableAndFrames ==
    [][/\ header'.attributes_all = header.attributes_all
       /\ header'.attributes_class = header.attributes_class
       /\ header'.attributes_element = header.attributes_element
       /\ header'.font_families = header.font_families
       /\ header'.breakpoint = header.breakpoint
       /\ ~IsFontOp(call'.op) =>
              header'.used_font_families = header.used_font_families
       /\ call'.op # "add_media_query" =>
              header'.media_queries = header.media_queries
       /\ call'.op \notin {"add_style", "maybe_add_style"} =>
              header'.styles = header.styles
       /\ call'.op # "maybe_set_lang" => header'.lang = header.lang
       /\ call'.op # "next_id" => header'.generator = header.generator
       /\ IsReadOp(call'.op) => header' = header]_vars

C9_Witness ==
    /\ call.op = "add_style"
    /\ header.attributes_all # EmptyMap
    /\ header.attributes_class # EmptyMap
    /\ header.styles = StyleValues
    /\ header.used_font_families # {}
    /\ header.media_queries # EmptyMap
    /\ header.lang # None
    /\ header.generator = MaxIds

\* C10: lang() is the argument of the most recent maybe_set_lang call, absent
\* when there was none, so an absent argument clears it; maybe_add_style and
\* maybe_add_font_families given an absent value leave the Header as it was.
C10_LangIsLastArgument ==
    /\ [](header.lang = hist.lang_arg)
    /\ [][(/\ call'.op \in {"maybe_add_style", "maybe_add_font_families"}
           /\ call'.arg = None) => header' = header]_vars

C10_Witness ==
    /\ call.op = "maybe_set_lang"
    /\ hist.lang_before # None
    /\ hist.lang_arg = None
    /\ header.lang = None

(***************************************************************************)
(* SpecId: next_id called again and again on a freshly constructed Header  *)
(***************************************************************************)
InitId ==
    /\ header = HeaderNew(NoHead)
    /\ node = IdleNode
    /\ cursor = EmptyCursor
    /\ call = NoCall
    /\ threads = IdleThreads
    /\ hist = NoHist

NextIdInARow == NextIdUpTo(MaxCallsInARow)

SpecId == InitId /\ [][NextIdInARow]_vars

\* the order of str: lexicographic, by character
RECURSIVE StrLess(_, _)
StrLess(a, b) ==
    IF b = <<>> THEN FALSE
    ELSE IF a = <<>> THEN TRUE
    ELSE IF Head(a) = Head(b) THEN StrLess(Tail(a), Tail(b))
    ELSE DigitValue(Head(a)) < DigitValue(Head(b))

IdZero == <<"0", "0", "0", "0", "0", "0", "0", "0">>

\* C2: on a fresh Header the first next_id returns "00000000", every id is
\* exactly 8 decimal digits, and every id is greater than the one returned
\* before it, so that none is returned twice, however many calls are made.
C2_IdsStrictlyIncreasing ==
    call.op = "next_id" =>
        LET id == Unwrap(call.ret)
        IN  /\ Len(id) = 8
            /\ \A i \in 1..Len(id) : IsDigit(id[i])
            /\ hist.calls = 1 => id = IdZero
            /\ IsSome(hist.prev_id) => StrLess(Unwrap(hist.prev_id), id)

(***************************************************************************)
(* SpecShared: next_id invoked from several execution contexts on one      *)
(* shared Header.  fetch_add is one atomic step; formatting the fetched    *)
(* value and returning it is a second step, local to the context.          *)
(***************************************************************************)
\* The Header after next_id has been called k times in a row on it (SpecId
\* reaches every such state from Header::new), and the history of these calls.
HeaderAfter(k) == [HeaderNew(NoHead) EXCEPT !.generator = k % GeneratorModulus]

HistAfter(k) ==
    [NoHist EXCEPT !.calls = k,
                   !.log = {[n |-> i, id |-> FormatId(i - 1)] :
                               i \in 1..(IF k < MaxLogged THEN k ELSE MaxLogged)}]

\* the Header is shared when fresh, or when it has handed out ids already
SharedAfter == {0, GeneratorModulus - 2}

InitShared ==
    /\ \E k \in SharedAfter : header = HeaderAfter(k) /\ hist = HistAfter(k)
    /\ node = IdleNode
    /\ cursor = EmptyCursor
    /\ call = NoCall
    /\ threads = IdleThreads

\* let id = self.generator.fetch_add(1, Ordering::SeqCst);
SharedFetchAdd(t) ==
    /\ threads[t].pc = "idle"
    /\ \E k \in SharedAfter : hist.calls \in k..(k + MaxSharedCalls - 1)
    /\ header' = FetchAdd(header)
    /\ threads' = [threads EXCEPT ![t] = [pc |-> "fetched",
                                          id |-> header.generator,
                                          n |-> hist.calls + 1,
                                          ret |-> None]]
    /\ hist' = [hist EXCEPT !.calls = @ + 1]
    /\ UNCHANGED <<node, cursor, call>>

\* format!("{id:0>8}"), returned to the caller
SharedReturn(t) ==
    /\ threads[t].pc = "fetched"
    /\ threads' = [threads EXCEPT ![t].pc = "idle",
                                  ![t].ret = Some(FormatId(threads[t].id))]
    /\ hist' = [hist EXCEPT !.log =
                    IF Cardinality(@) < MaxLogged
                    THEN @ \cup {[n |-> threads[t].n, id |-> FormatId(threads[t].id)]}
                    ELSE @]
    /\ UNCHANGED <<header, node, cursor, call>>

NextShared == \E t \in Threads : SharedFetchAdd(t) \/ SharedReturn(t)

SpecShared == InitShared /\ [][NextShared]_vars

\* the invocations whose result is on record: the first MaxLogged to return,
\* and the latest of every execution context
Returned ==
    hist.log \cup {[n |-> threads[t].n, id |-> Unwrap(threads[t].ret)] :
                      t \in {u \in Threads : IsSome(threads[u].ret)}}

\* C5: under every interleaving of next_id invocations on one shared Header,
\* no two invocations return the same identifier: as many identifiers are
\* handed out as invocations complete.
C5_NoTwoInvocationsShareAnId ==
    \A e1, e2 \in Returned : e1.n # e2.n => e1.id # e2.id

(***************************************************************************)
(* SpecNode: one node, its attributes and the Header it resolves against;  *)
(* the container width is set, attributes are resolved, the divider is     *)
(* rendered.                                                               *)
(***************************************************************************)
\* "a b"
ClassesAB == <<"a", " ", "b">>

\* "b  a\t"
ClassesBA == <<"b", " ", " ", "a", "\t">>

P30 == <<"3", "0", "p", "x">>

\* the map of the keys that an option gives a value
MapFromOptions(options) ==
    [k \in {x \in DOMAIN options : IsSome(options[x])} |-> Unwrap(options[k])]

DividerAttributes ==
    {MapFromOptions(("width" :> w) @@ ("padding-left" :> l) @@ ("mj-class" :> c)) :
        w \in {None, Some(W50pc), Some(W100px), Some(WAuto), Some(WBadPx)},
        l \in {None, Some(P30)},
        c \in {None, Some(ClassesAB), Some(ClassesBA)}}

DividerNodes ==
    {[kind |-> "mj-divider", attributes |-> Some(a), extra_attributes |-> Some(x),
      container_width |-> None] :
        a \in DividerAttributes, x \in {EmptyMap, "width" :> W20pc}}

GenericNodes ==
    {[IdleNode EXCEPT !.attributes = a] :
        a \in {None, Some("mj-class" :> ClassesAB), Some("color" :> <<"g">>)}}

ContainerWidths == {None, Some(600 * PixelScale), Some(100 * PixelScale)}

Keys == {"width", "padding", "color"}

\* what the buffer holds when the node is rendered: nothing, or what was
\* rendered before it
EarlierOutput == {<<>>, <<Piece("text", NoTag, <<"x">>)>>}

InitNode ==
    /\ \E head \in Heads : header = HeaderNew(head)
    /\ node \in DividerNodes \cup GenericNodes
    /\ \E buf \in EarlierOutput : cursor = [EmptyCursor EXCEPT !.buffer = buf]
    /\ call = NoCall
    /\ threads = IdleThreads
    /\ hist = NoHist

\* set_container_width: the divider stores the width, the trait default drops it
SetContainerWidth ==
    \E width \in ContainerWidths :
        /\ node' = IF node.kind = "mj-divider" THEN set_container_width(node, width)
                   ELSE node
        /\ call' = [op |-> "set_container_width", ret |-> None]
        /\ UNCHANGED <<header, cursor, threads, hist>>

Attribute ==
    \E key \in Keys :
        /\ call' = [op |-> "attribute", key |-> key, ret |-> attribute(node, header, key)]
        /\ UNCHANGED <<header, node, cursor, threads, hist>>

\* get_outlook_width: ret is absent where it panics
GetOutlookWidth ==
    /\ node.kind = "mj-divider"
    /\ call' = [op |-> "get_outlook_width", ret |-> get_outlook_width(node, header)]
    /\ UNCHANGED <<header, node, cursor, threads, hist>>

\* render: the <p>, then render_after, then Ok(()).  A panic unwinds out of
\* render with the buffer as it is at that point, and the caller obtains nothing.
Render ==
    /\ node.kind = "mj-divider"
    /\ cursor.result # "panic"
    /\ cursor.renders < MaxRenders
    /\ \E disable_comments \in BOOLEAN :
        LET after_p == RenderP(node, header, cursor.buffer)
            done == UNION {render_after(node, header, buf) : buf \in after_p}
        IN  cursor' = [buffer |-> IF IsSome(done) THEN Unwrap(done)
                                  ELSE IF IsSome(after_p) THEN Unwrap(after_p)
                                  ELSE cursor.buffer,
                       result |-> IF IsSome(done) THEN "ok" ELSE "panic",
                       output |-> done,
                       before |-> cursor.buffer,
                       container_width |-> node.container_width,
                       disable_comments |-> disable_comments,
                       renders |-> cursor.renders + 1]
    /\ call' = [op |-> "render", ret |-> None]
    /\ UNCHANGED <<header, node, threads, hist>>

NextNode ==
    \/ SetContainerWidth
    \/ Attribute
    \/ GetOutlookWidth
    \/ Render

SpecNode == InitNode /\ [][NextNode]_vars

(***************************************************************************)
(* Properties of SpecNode                                                  *)
(***************************************************************************)
\* the stretches of v between its spaces, by the place where each starts
NameStarts(v) == {i \in 1..(Len(v) + 1) : i = 1 \/ v[i - 1] = " "}

NameAt(v, i) ==
    LET end == CHOOSE j \in i..(Len(v) + 1) :
                   /\ j = Len(v) + 1 \/ v[j] = " "
                   /\ \A k \in i..(j - 1) : v[k] # " "
    IN  Trim(SubSeq(v, i, end - 1))

\* the six tiers of the cascade for key, each a value or absent
Tiers(n, h, key) ==
    LET own == IF IsSome(n.attributes) THEN Unwrap(n.attributes) ELSE EmptyMap
        extra == IF IsSome(n.extra_attributes) THEN Unwrap(n.extra_attributes)
                 ELSE EmptyMap
        declared == IF "mj-class" \in DOMAIN own THEN own["mj-class"] ELSE <<>>
        defining == {i \in NameStarts(declared) :
                        /\ "mj-class" \in DOMAIN own
                        /\ NameAt(declared, i) \in DOMAIN h.attributes_class
                        /\ key \in DOMAIN h.attributes_class[NameAt(declared, i)]}
        first == CHOOSE i \in defining : \A j \in defining : i <= j
        element == IF n.kind = "mj-divider" /\ TagDivider \in DOMAIN h.attributes_element
                   THEN h.attributes_element[TagDivider] ELSE EmptyMap
        compiled == IF n.kind = "mj-divider" THEN DividerDefaults ELSE EmptyMap
    IN  <<Get(own, key),
          Get(extra, key),
          IF defining = {} THEN None
          ELSE Some(h.attributes_class[NameAt(declared, first)][key]),
          Get(element, key),
          Get(h.attributes_all, key),
          Get(compiled, key)>>

\* C1: attribute(key) is the value of the first tier that defines key, in the
\* order own attributes, extra attributes, first declared class that defines
\* it, element table under the tag, global table, compiled-in default; it is
\* absent exactly when no tier defines key.
C1_CascadeOrder ==
    call.op = "attribute" =>
        LET tiers == Tiers(node, header, call.key)
            defined == {i \in 1..6 : IsSome(tiers[i])}
        IN  IF defined = {} THEN call.ret = None
            ELSE call.ret = tiers[CHOOSE i \in defined : \A j \in defined : i <= j]

\* classes "b  a\t": both define padding, b is declared first; nothing above
C1_Witness ==
    /\ call.op = "attribute"
    /\ call.key = "padding"
    /\ node.kind = "mj-divider"
    /\ Get(Unwrap(node.attributes), "mj-class") = Some(ClassesBA)
    /\ header.attributes_class # EmptyMap
    /\ call.ret = Some(P1234)

\* C3: with the container width cw set and the padding sum hp, the outlook
\* width is (cw - hp) * p / 100 for a width of p percent, v for a width of v
\* pixels, cw - hp for any other width and for a width that resolves to
\* nothing; cw = 600 and padding "10px 25px" give 275 for "50%", 100 for
\* "100px" and 550 for "100%".
C3_OutlookWidth ==
    (call.op = "get_outlook_width" /\ IsSome(node.container_width)) =>
        LET cw == Unwrap(node.container_width)
            hp == get_padding_horizontal(node, header)
            width == attribute_as_size(node, header, "width")
            resolved == attribute(node, header, "width")
            plain == /\ attribute(node, header, "padding") = Some(P10x25)
                     /\ attribute(node, header, "padding-left") = None
                     /\ attribute(node, header, "padding-right") = None
                     /\ cw = 600 * PixelScale
        IN  /\ IsSome(call.ret)
            /\ width = None => Unwrap(call.ret) = cw - hp
            /\ \A size \in width :
                   /\ size.unit = "%" =>
                          100 * Unwrap(call.ret) = (cw - hp) * size.value
                   /\ size.unit = "px" => Unwrap(call.ret) = size.value
                   /\ size.unit = "raw" => Unwrap(call.ret) = cw - hp
            /\ (plain /\ resolved = Some(W50pc)) =>
                   Unwrap(call.ret) = 275 * PixelScale
            /\ (plain /\ resolved = Some(W100px)) =>
                   Unwrap(call.ret) = 100 * PixelScale
            /\ (plain /\ resolved = Get(DividerDefaults, "width")) =>
                   Unwrap(call.ret) = 550 * PixelScale

\* width "50%" against the default padding in a container of 600px
C3_Witness ==
    /\ call.op = "get_outlook_width"
    /\ node.container_width = Some(600 * PixelScale)
    /\ attribute(node, header, "width") = Some(W50pc)
    /\ get_padding_horizontal(node, header) = 50 * PixelScale
    /\ call.ret = Some(275 * PixelScale)

PieceNames(buf) == [i \in 1..Len(buf) |-> <<buf[i].kind, buf[i].tag.name>>]

\* C7: a render that completes has appended, in this order and nothing else,
\* the <p> (start tag, empty text, end tag), the conditional start, the start
\* of the table, the start of the row, the cell holding &nbsp;, the end of the
\* row, the end of the table, the conditional end, whatever disable_comments is.
C7_RenderAppendsInOrder ==
    cursor.result = "ok" =>
        /\ Len(cursor.buffer) = Len(cursor.before) + 12
        /\ SubSeq(cursor.buffer, 1, Len(cursor.before)) = cursor.before
        /\ cursor.output = Some(cursor.buffer)
        /\ PieceNames(SubSeq(cursor.buffer, Len(cursor.before) + 1, Len(cursor.buffer)))
           = << <<"open", "p">>, <<"text", "">>, <<"close", "p">>,
                <<"conditional-start", "">>,
                <<"open", "table">>, <<"open", "tr">>,
                <<"open", "td">>, <<"text", "">>, <<"close", "td">>,
                <<"close", "tr">>, <<"close", "table">>,
                <<"conditional-end", "">> >>
        /\ cursor.buffer[Len(cursor.before) + 2].text = <<>>
        /\ cursor.buffer[Len(cursor.before) + 8].text = Str_nbsp

C7_Witness ==
    /\ call.op = "render"
    /\ cursor.result = "ok"
    /\ cursor.disable_comments
    /\ cursor.before # <<>>
    /\ cursor.buffer[Len(cursor.buffer)].kind = "conditional-end"

(***************************************************************************)
(* SpecRender: one document rendered again and again with the same         *)
(* options.  Every render builds its Header with Header::new from the      *)
(* head of the document and walks the body in order; what an element does  *)
(* to the Header and to the buffer is one step.                            *)
(***************************************************************************)
\* what an element of the body does when it is rendered
DocOps ==
    {[op |-> "font-family", value |-> FontListA],
     [op |-> "font-family", value |-> FontListB],
     [op |-> "style", value |-> <<>>],
     [op |-> "lang", value |-> <<>>],
     [op |-> "media-query", value |-> <<>>],
     [op |-> "id", value |-> <<>>],
     [op |-> "mj-divider", value |-> <<>>]}

Bodies == UNION {[1..n -> DocOps] : n \in 1..MaxDocOps}

DocDivider ==
    [kind |-> "mj-divider",
     attributes |-> Some("mj-class" :> ClassesAB),
     extra_attributes |-> Some(EmptyMap),
     container_width |-> Some(600 * PixelScale)]

InitRender ==
    /\ header = HeaderNew(NoHead)
    /\ node = DocDivider
    /\ cursor = EmptyCursor
    /\ call = NoCall
    /\ threads = IdleThreads
    /\ \E head \in Heads, body \in Bodies :
           hist = [NoHist EXCEPT !.doc = [head |-> head, body |-> body]]

\* a render starts: Header::new(head), an empty buffer
BeginRender ==
    /\ hist.pass < MaxPasses
    /\ hist.pass = Len(hist.outputs)
    /\ header' = HeaderNew(hist.doc.head)
    /\ cursor' = EmptyCursor
    /\ call' = [op |-> "new", ret |-> None]
    /\ hist' = [hist EXCEPT !.pass = @ + 1, !.ip = 1]
    /\ UNCHANGED <<node, threads>>

\* the next element of the body is rendered
RenderElement ==
    /\ hist.pass > Len(hist.outputs)
    /\ hist.ip <= Len(hist.doc.body)
    /\ LET e == hist.doc.body[hist.ip]
       IN  /\ header' =
                  IF e.op = "font-family"
                  THEN maybe_add_font_families(header, Some(e.value))
                  ELSE IF e.op = "style" THEN add_style(header, ".a{}")
                  ELSE IF e.op = "lang" THEN maybe_set_lang(header, Some("en"))
                  ELSE IF e.op = "media-query"
                  THEN add_media_query(header, "mj-column-per-100", SizePercent(100))
                  ELSE IF e.op = "id" THEN FetchAdd(header)
                  ELSE header
           /\ cursor' =
                  IF e.op = "id"
                  THEN [cursor EXCEPT !.buffer =
                            Append(@, Piece("text", NoTag, FormatId(header.generator)))]
                  ELSE IF e.op = "mj-divider"
                  THEN [cursor EXCEPT !.buffer =
                            Unwrap(UNION {render_after(node, header, buf) :
                                             buf \in RenderP(node, header, @)})]
                  ELSE cursor
           /\ call' = [op |-> e.op, ret |-> None]
    /\ hist' = [hist EXCEPT !.ip = @ + 1]
    /\ UNCHANGED <<node, threads>>

\* the render ends: the caller obtains the buffer and what the Header gathered
EndRender ==
    /\ hist.pass > Len(hist.outputs)
    /\ hist.ip = Len(hist.doc.body) + 1
    /\ hist' = [hist EXCEPT !.outputs =
                    Append(@, [buffer |-> cursor.buffer,
                               used_font_families |-> header.used_font_families,
                               media_queries |-> header.media_queries,
                               styles |-> header.styles,
                               lang |-> header.lang])]
    /\ call' = [op |-> "render", ret |-> None]
    /\ UNCHANGED <<header, node, cursor, threads>>

NextRender ==
    \/ BeginRender
    \/ RenderElement
    \/ EndRender

SpecRender == InitRender /\ [][NextRender]_vars

\* C8: every render starts from a Header whose id counter is 0 and whose
\* used_font_families, media_queries, styles and lang are empty, whatever the
\* renders before it left behind, and all renders of the document yield the
\* same output.
C8_RendersAreIndependent ==
    /\ (call.op = "new" /\ hist.pass > 0) =>
           /\ header.generator = 0
           /\ header.used_font_families = {}
           /\ header.media_queries = EmptyMap
           /\ header.styles = {}
           /\ header.lang = None
    /\ \A i, j \in DOMAIN hist.outputs : hist.outputs[i] = hist.outputs[j]

\* a second render after a first that handed out an id and set lang
C8_Witness ==
    /\ Len(hist.outputs) = 2
    /\ hist.outputs[1].lang = Some("en")
    /\ hist.outputs[2].buffer = <<Piece("text", NoTag, IdZero)>>

====
